---- MODULE Spec2Model ----
(***************************************************************************)
(* Model of script.js, the client-side storefront: the field validators,   *)
(* the localStorage wrapper, the persisted selection and the booking       *)
(* pipeline (validateOrderForm, generateETA, generateOrderId,              *)
(* processOrder).                                                          *)
(*                                                                         *)
(* JavaScript strings are sequences of one-character strings, so that      *)
(* trim, replace, the regular expressions and parseInt are computed on     *)
(* the characters.  A form is a function from the keys it holds to such    *)
(* strings: a key outside its DOMAIN reads as undefined.                   *)
(***************************************************************************)
EXTENDS Integers, Sequences, FiniteSets, TLC

VARIABLES localStorage, call, ret, selAtSubmit, lastBooking, absSel

vars == <<localStorage, call, ret, selAtSubmit, lastBooking, absSel>>

(***************************************************************************)
(* Characters and strings                                                  *)
(***************************************************************************)

Digit == {"0", "1", "2", "3", "4", "5", "6", "7", "8", "9"}

\* the characters String.prototype.trim and the class \s both remove
\* (those of them the inputs below use)
WhiteSpace == {" ", "\t", "\n"}

DigitValue(c) ==
  CASE c = "0" -> 0 [] c = "1" -> 1 [] c = "2" -> 2 [] c = "3" -> 3
    [] c = "4" -> 4 [] c = "5" -> 5 [] c = "6" -> 6 [] c = "7" -> 7
    [] c = "8" -> 8 [] c = "9" -> 9

\* every string over alphabet A of length at most n
StringsUpTo(A, n) == UNION {[1..k -> A] : k \in 0..n}

RECURSIVE TrimStart(_)
TrimStart(s) ==
  IF s # <<>> /\ Head(s) \in WhiteSpace THEN TrimStart(Tail(s)) ELSE s

RECURSIVE TrimEnd(_)
TrimEnd(s) ==
  IF s # <<>> /\ s[Len(s)] \in WhiteSpace
    THEN TrimEnd(SubSeq(s, 1, Len(s) - 1))
    ELSE s

\* String.prototype.trim
Trim(s) == TrimEnd(TrimStart(s))

\* s.replace(/\s+/, ''): only the first run of whitespace is removed
RECURSIVE ReplaceFirstRun(_)
ReplaceFirstRun(s) ==
  IF s = <<>> THEN <<>>
  ELSE IF Head(s) \in WhiteSpace THEN TrimStart(s)
  ELSE <<Head(s)>> \o ReplaceFirstRun(Tail(s))

\* s.replace(/\s+/g, ''): every run of whitespace is replaced by nothing
RECURSIVE ReplaceAllRuns(_)
ReplaceAllRuns(s) ==
  IF s = <<>> THEN <<>>
  ELSE IF Head(s) \in WhiteSpace THEN ReplaceAllRuns(TrimStart(s))
  ELSE <<Head(s)>> \o ReplaceAllRuns(Tail(s))

\* regex.test(s) for an anchored pattern ^c1 c2 ... cn$ of character
\* classes: the whole string, class by class (none of the patterns has the
\* multiline flag, so $ is the end of the input)
RegexTest(pattern, s) ==
  /\ Len(s) = Len(pattern)
  /\ \A i \in 1..Len(s) : s[i] \in pattern[i]

(***************************************************************************)
(* CONFIG                                                                  *)
(***************************************************************************)

SELECTED_PRODUCT == "luxe_liquor_selected_product"
BOOKING_DATA == "luxe_liquor_booking_data"
USER_PREFERENCES == "luxe_liquor_user_prefs"
STORAGE_KEYS == {SELECTED_PRODUCT, BOOKING_DATA, USER_PREFERENCES}

MIN_DAYS == 2
MAX_DAYS == 5
WEEKEND_DELAY == 1

\* /^[6-9]\d{9}$/
PHONE_REGEX == <<{"6", "7", "8", "9"}>> \o [i \in 1..9 |-> Digit]
\* /^\d{6}$/
PIN_REGEX == [i \in 1..6 |-> Digit]
MIN_NAME_LENGTH == 2
MIN_ADDRESS_LENGTH == 10

(***************************************************************************)
(* Validator                                                               *)
(***************************************************************************)

\* (x || ''), x a string or undefined; a missing form key is undefined
OrEmpty(form, k) == IF k \in DOMAIN form THEN form[k] ELSE <<>>

validateName(name) ==
  LET trimmedName == Trim(name)
      isValid == Len(trimmedName) >= MIN_NAME_LENGTH
  IN [isValid |-> isValid,
      message |-> IF isValid THEN "" ELSE "Name must be at least 2 characters long"]

validatePhoneFirstRun(phone) ==
  LET trimmedPhone == ReplaceFirstRun(Trim(phone))
      isValid == RegexTest(PHONE_REGEX, trimmedPhone)
  IN [isValid |-> isValid,
      value |-> trimmedPhone,
      message |-> IF isValid THEN ""
                  ELSE "Please enter a valid 10-digit Indian mobile number"]

validatePhone(phone) ==
  LET trimmedPhone == ReplaceAllRuns(Trim(phone))
      isValid == RegexTest(PHONE_REGEX, trimmedPhone)
  IN [isValid |-> isValid,
      value |-> trimmedPhone,
      message |-> IF isValid THEN ""
                  ELSE "Please enter a valid 10-digit Indian mobile number"]

validateAddress(address) ==
  LET trimmedAddress == Trim(address)
      isValid == Len(trimmedAddress) >= MIN_ADDRESS_LENGTH
  IN [isValid |-> isValid,
      message |-> IF isValid THEN ""
                  ELSE "Address must be at least 10 characters long"]

validatePINUntrimmed(pin) ==
  LET isValid == RegexTest(PIN_REGEX, pin)
  IN [isValid |-> isValid,
      message |-> IF isValid THEN "" ELSE "Please enter a valid 6-digit PIN code"]

validatePIN(pin) ==
  LET trimmedPIN == Trim(pin)
      isValid == RegexTest(PIN_REGEX, trimmedPIN)
  IN [isValid |-> isValid,
      message |-> IF isValid THEN "" ELSE "Please enter a valid 6-digit PIN code"]

(***************************************************************************)
(* parseInt(string, 10)                                                    *)
(***************************************************************************)

NaN == [isNaN |-> TRUE]
Num(n) == [isNaN |-> FALSE, n |-> n]

RECURSIVE DigitPrefix(_)
DigitPrefix(s) ==
  IF s # <<>> /\ Head(s) \in Digit
    THEN <<Head(s)>> \o DigitPrefix(Tail(s))
    ELSE <<>>

RECURSIVE DecimalValue(_)
DecimalValue(d) ==
  IF d = <<>> THEN 0
  ELSE 10 * DecimalValue(SubSeq(d, 1, Len(d) - 1)) + DigitValue(d[Len(d)])

\* leading whitespace is skipped, one sign is read, then the longest run of
\* digits; what follows the digits is ignored; no digit at all gives NaN
parseInt(s) ==
  LET t == TrimStart(s)
      signed == t # <<>> /\ Head(t) \in {"+", "-"}
      sign == IF t # <<>> /\ Head(t) = "-" THEN -1 ELSE 1
      d == DigitPrefix(IF signed THEN Tail(t) ELSE t)
  IN IF d = <<>> THEN NaN ELSE Num(sign * DecimalValue(d))

\* String(undefined), what parseInt is given for a missing key
UndefinedString == <<"u", "n", "d", "e", "f", "i", "n", "e", "d">>

(***************************************************************************)
(* JavaScript values that share a position with a value of another type    *)
(***************************************************************************)

Null == [null |-> TRUE]
Str(s) == [str |-> s]
Bool(b) == [boolean |-> b]
DateOf(day) == [date |-> day]
ISOString(day) == [iso |-> day]
LocaleDateString(day) == [localeDate |-> day]

(***************************************************************************)
(* PRODUCT_CATALOG                                                         *)
(***************************************************************************)

products == <<
  [id |-> "jack-premium-whisky", name |-> "Premium Whisky - Jack Daniels",
   price |-> 1299, abv |-> 40, image |-> "images/jack.jpg",
   category |-> "whisky",
   description |-> "Tennessee whiskey with smooth vanilla finish"],
  [id |-> "jameson-irish-whisky", name |-> "Jameson Irish Whisky",
   price |-> 1199, abv |-> 40, image |-> "images/jameson.jpg",
   category |-> "whisky",
   description |-> "Triple-distilled Irish whiskey with citrus notes"],
  [id |-> "luxury-premium-vodka", name |-> "Luxury Premium Vodka",
   price |-> 999, abv |-> 40, image |-> "images/vodka.jpg",
   category |-> "vodka",
   description |-> "Ultra-pure vodka with crystal clarity"],
  [id |-> "black-tot-rum", name |-> "Black Tot Premium Rum",
   price |-> 899, abv |-> 42, image |-> "images/blacktot.jpg",
   category |-> "rum",
   description |-> "Caribbean rum with rich molasses flavor"],
  [id |-> "black-white-scotch", name |-> "Black & White Scotch Whisky",
   price |-> 1099, abv |-> 43, image |-> "images/blackwhite.jpg",
   category |-> "whisky",
   description |-> "Blended Scotch with smoky undertones"],
  [id |-> "old-monk-rum", name |-> "Old Monk Dark Rum",
   price |-> 499, abv |-> 42, image |-> "images/oldmonk.jpg",
   category |-> "rum",
   description |-> "Classic Indian dark rum with vanilla notes"] >>

\* products.find(product => product.id === productId) || null
getProductById(productId) ==
  LET hits == {i \in 1..Len(products) : products[i].id = productId}
  IN IF hits = {} THEN Null
     ELSE products[CHOOSE i \in hits : \A j \in hits : i <= j]

(***************************************************************************)
(* Storage: the wrapper over localStorage.  An item of localStorage is     *)
(* absent or a text; a text is the JSON of a value, or is not JSON.        *)
(* A wrapper function is given whether the localStorage call it makes      *)
(* throws (quota exceeded, storage disabled).                              *)
(***************************************************************************)

NoItem == [present |-> FALSE]
Item(text) == [present |-> TRUE, text |-> text]
GarbageText == [kind |-> "garbage"]
EmptyText == [kind |-> "empty"]

\* JSON.stringify: a Date becomes its ISO string (Date.prototype.toJSON);
\* strings, numbers and plain objects are kept
ToJSON(value) ==
  IF "eta" \in DOMAIN value
    THEN [value EXCEPT !.eta.date = ISOString(@.date)]
    ELSE value

JSONStringify(value) == [kind |-> "json", value |-> ToJSON(value)]

\* whether JSON.parse(text) throws a SyntaxError
JSONParseThrows(text) == text.kind # "json"

JSONParse(text) == text.value

\* what setItem leaves in the store, and what it returns
StorageSetItemStoreKeepsFirst(store, key, value, throws) ==
  IF throws \/ store[key].present THEN store
  ELSE [store EXCEPT ![key] = Item(JSONStringify(value))]

StorageSetItemStore(store, key, value, throws) ==
  IF throws THEN store
  ELSE [store EXCEPT ![key] = Item(JSONStringify(value))]

StorageSetItem(throws) == ~throws

\* item ? JSON.parse(item) : null, inside try/catch: the empty text is falsy
StorageGetItem(store, key, throws) ==
  IF throws THEN Null
  ELSE LET item == store[key]
       IN IF ~item.present \/ item.text = EmptyText THEN Null
          ELSE IF JSONParseThrows(item.text) THEN Null
          ELSE JSONParse(item.text)

StorageRemoveItemStoreKeepsItem(store, key, throws) == store

StorageRemoveItemStore(store, key, throws) ==
  IF throws THEN store ELSE [store EXCEPT ![key] = NoItem]

StorageRemoveItem(throws) == ~throws

\* a call that ends by an exception reaching the caller has no return value
Raised == [raised |-> TRUE]

\* whether setItem raises to its caller: JSON.stringify and
\* localStorage.setItem are both inside the try block, whose catch block
\* returns false
StorageSetItemRaises(throws) == FALSE

\* JSON.parse is outside the try block: the SyntaxError of a text that is
\* not JSON reaches the caller
StorageGetItemRaisesParseOutsideTry(store, key, throws) ==
  /\ ~throws
  /\ store[key].present
  /\ store[key].text # EmptyText
  /\ JSONParseThrows(store[key].text)

\* whether getItem raises to its caller: localStorage.getItem and JSON.parse
\* are both inside the try block, whose catch block returns null
StorageGetItemRaises(store, key, throws) == FALSE

\* whether removeItem raises to its caller
StorageRemoveItemRaises(throws) == FALSE

\* !value for what getItem returns: null, or a parsed object
Falsy(value) == value = Null

(***************************************************************************)
(* OrderManager: the pure parts                                            *)
(***************************************************************************)

\* Math.random() is n / RandomScale for an n in 0 .. RandomScale - 1
RandomScale == 4
Randoms == 0..(RandomScale - 1)

\* a time is a day number; day 0 is a Sunday, as getDay numbers the days
getDay(today) == today % 7

\* Math.floor(Math.random() * (MAX_DAYS - MIN_DAYS + 1)) + MIN_DAYS
DrawDays(random) ==
  ((random * (MAX_DAYS - MIN_DAYS + 1)) \div RandomScale) + MIN_DAYS

\* the delivery date is computed before the weekend delay is added
generateETADateBeforeDelay(today, random) ==
  LET dayOfWeek == getDay(today)
      drawn == DrawDays(random)
      baseDays == IF dayOfWeek = 0 \/ dayOfWeek = 6
                    THEN drawn + WEEKEND_DELAY
                    ELSE drawn
      deliveryDate == today + drawn
  IN [date |-> DateOf(deliveryDate),
      dateString |-> LocaleDateString(deliveryDate),
      daysFromNow |-> baseDays,
      relative |-> IF baseDays = 1 THEN [label |-> "Tomorrow"]
                   ELSE [days |-> baseDays]]

generateETA(today, random) ==
  LET dayOfWeek == getDay(today)
      drawn == DrawDays(random)
      baseDays == IF dayOfWeek = 0 \/ dayOfWeek = 6
                    THEN drawn + WEEKEND_DELAY
                    ELSE drawn
      deliveryDate == today + baseDays
  IN [date |-> DateOf(deliveryDate),
      dateString |-> LocaleDateString(deliveryDate),
      daysFromNow |-> baseDays,
      relative |-> IF baseDays = 1 THEN [label |-> "Tomorrow"]
                   ELSE [days |-> baseDays]]

\* `LLX-${timestamp}-${random}`
generateOrderId(now, random) ==
  [prefix |-> "LLX", timestamp |-> now, random |-> random]

Fields == {"name", "phone", "address", "city", "pin", "payment", "quantity"}

EmptyMap == [k \in {} |-> ""]

\* errors.field = message; isValid = false
Fail(acc, field, message) ==
  [errors |-> (field :> message) @@ acc.errors, isValid |-> FALSE]

\* !formData.city || formData.city.trim().length < 2
CityInvalid(formData) ==
  \/ "city" \notin DOMAIN formData
  \/ formData["city"] = <<>>
  \/ Len(Trim(formData["city"])) < 2

\* !formData.payment
PaymentInvalidMissingOnly(formData) == "payment" \notin DOMAIN formData

PaymentInvalid(formData) ==
  "payment" \notin DOMAIN formData \/ formData["payment"] = <<>>

\* parseInt(formData.quantity, 10)
ParseQuantity(data) ==
  IF "quantity" \in DOMAIN data
    THEN parseInt(data["quantity"])
    ELSE parseInt(UndefinedString)

\* isNaN(quantity) || quantity < 1 || quantity > 10
QuantityInvalid(formData) ==
  LET quantity == ParseQuantity(formData)
  IN quantity.isNaN \/ quantity.n < 1 \/ quantity.n > 10

\* { ...formData, phone: phoneValidation.value }
\* the phone is passed through as it was submitted
ValidatedDataRawPhone(formData, phoneValidation) ==
  [k \in DOMAIN formData \cup {"phone"} |->
     IF k \in DOMAIN formData THEN formData[k] ELSE phoneValidation.value]

ValidatedData(formData, phoneValidation) ==
  [k \in DOMAIN formData \cup {"phone"} |->
     IF k = "phone" THEN phoneValidation.value ELSE formData[k]]

validateOrderFormFirstOnly(formData) ==
  LET start == [errors |-> EmptyMap, isValid |-> TRUE]
      nameValidation == validateName(OrEmpty(formData, "name"))
      phoneValidation == validatePhone(OrEmpty(formData, "phone"))
      addressValidation == validateAddress(OrEmpty(formData, "address"))
      pinValidation == validatePIN(OrEmpty(formData, "pin"))
      acc ==
        IF ~nameValidation.isValid
          THEN Fail(start, "name", nameValidation.message)
        ELSE IF ~phoneValidation.isValid
          THEN Fail(start, "phone", phoneValidation.message)
        ELSE IF ~addressValidation.isValid
          THEN Fail(start, "address", addressValidation.message)
        ELSE IF CityInvalid(formData)
          THEN Fail(start, "city", "Please enter a valid city name")
        ELSE IF ~pinValidation.isValid
          THEN Fail(start, "pin", pinValidation.message)
        ELSE IF PaymentInvalid(formData)
          THEN Fail(start, "payment", "Please select a payment method")
        ELSE IF QuantityInvalid(formData)
          THEN Fail(start, "quantity", "Quantity must be between 1 and 10")
        ELSE start
  IN [isValid |-> acc.isValid,
      errors |-> acc.errors,
      validatedData |-> ValidatedData(formData, phoneValidation)]

\* the seven checks in the order of the code, each on the errors and the
\* flag the one before it left
validateOrderForm(formData) ==
  LET start == [errors |-> EmptyMap, isValid |-> TRUE]
      nameValidation == validateName(OrEmpty(formData, "name"))
      afterName ==
        IF ~nameValidation.isValid
          THEN Fail(start, "name", nameValidation.message)
          ELSE start
      phoneValidation == validatePhone(OrEmpty(formData, "phone"))
      afterPhone ==
        IF ~phoneValidation.isValid
          THEN Fail(afterName, "phone", phoneValidation.message)
          ELSE afterName
      addressValidation == validateAddress(OrEmpty(formData, "address"))
      afterAddress ==
        IF ~addressValidation.isValid
          THEN Fail(afterPhone, "address", addressValidation.message)
          ELSE afterPhone
      afterCity ==
        IF CityInvalid(formData)
          THEN Fail(afterAddress, "city", "Please enter a valid city name")
          ELSE afterAddress
      pinValidation == validatePIN(OrEmpty(formData, "pin"))
      afterPin ==
        IF ~pinValidation.isValid
          THEN Fail(afterCity, "pin", pinValidation.message)
          ELSE afterCity
      afterPayment ==
        IF PaymentInvalid(formData)
          THEN Fail(afterPin, "payment", "Please select a payment method")
          ELSE afterPin
      afterQuantity ==
        IF QuantityInvalid(formData)
          THEN Fail(afterPayment, "quantity", "Quantity must be between 1 and 10")
          ELSE afterPayment
  IN [isValid |-> afterQuantity.isValid,
      errors |-> afterQuantity.errors,
      validatedData |-> ValidatedData(formData, phoneValidation)]

\* selectedProduct.price * parseInt(validation.validatedData.quantity, 10)
TotalAmountUnitPrice(selectedProduct, validatedData) ==
  selectedProduct.price

TotalAmount(selectedProduct, validatedData) ==
  selectedProduct.price * ParseQuantity(validatedData).n

\* the booking object processOrder assembles
BookingIdOnly(orderId, now, validatedData, selectedProduct, eta) ==
  [id |-> orderId,
   createdAt |-> ISOString(now),
   status |-> "confirmed",
   customer |-> validatedData,
   product |-> [id |-> selectedProduct.id],
   eta |-> eta,
   totalAmount |-> TotalAmount(selectedProduct, validatedData)]

Booking(orderId, now, validatedData, selectedProduct, eta) ==
  [id |-> orderId,
   createdAt |-> ISOString(now),
   status |-> "confirmed",
   customer |-> validatedData,
   product |-> selectedProduct,
   eta |-> eta,
   totalAmount |-> TotalAmount(selectedProduct, validatedData)]

\* which return of processOrder is taken: the selection is tested before
\* the form is validated
processOrderBranchValidateFirst(selectedProduct, validation) ==
  IF ~validation.isValid THEN "invalid"
  ELSE IF Falsy(selectedProduct) THEN "noSelection"
  ELSE "save"

processOrderBranch(selectedProduct, validation) ==
  IF Falsy(selectedProduct) THEN "noSelection"
  ELSE IF ~validation.isValid THEN "invalid"
  ELSE "save"

NoSelectionError ==
  "No product selected. Please select a product from the menu first."
SaveFailedError == "Failed to save order. Please try again."

\* { success, booking: success ? booking : null, error: success ? null : '...' }
SaveResultSameError(success, booking) ==
  [success |-> success,
   booking |-> IF success THEN booking ELSE Null,
   error |-> IF success THEN Null ELSE Str(NoSelectionError)]

SaveResult(success, booking) ==
  [success |-> success,
   booking |-> IF success THEN booking ELSE Null,
   error |-> IF success THEN Null ELSE Str(SaveFailedError)]

(***************************************************************************)
(* SelectionManager: the pure parts                                        *)
(***************************************************************************)

getSelectedProduct(store, throws) ==
  StorageGetItem(store, SELECTED_PRODUCT, throws)

(***************************************************************************)
(* Inputs                                                                  *)
(***************************************************************************)

ValidForm1 ==
  [name |-> <<"A", "n", "u">>,
   phone |-> <<"9", "8", "7", "6", "5", "4", "3", "2", "1", "0">>,
   address |-> <<"1", "2", " ", "M", "G", " ", "R", "o", "a", "d">>,
   city |-> <<"P", "u", "n", "e">>,
   pin |-> <<"4", "0", "0", "0", "0", "1">>,
   payment |-> <<"u", "p", "i">>,
   quantity |-> <<"1">>]

ValidForm2 ==
  [name |-> <<" ", "J", "o", " ">>,
   phone |-> <<"9", "8", "7", " ", "6", "5", "4", " ", "3", "2", "1", "0">>,
   address |-> <<"F", "l", "a", "t", " ", "7", ",", " ", "M", "a", "l", "l", " ", "R", "d">>,
   city |-> <<"G", "o", "a">>,
   pin |-> <<" ", "4", "0", "3", "0", "0", "1", " ">>,
   payment |-> <<"c", "o", "d">>,
   quantity |-> <<"1", "0">>]

\* other values of each field, most of them breaking the field's rule
Alternatives ==
  [name |-> {<<>>, <<"A">>, <<" ", "A", " ">>},
   phone |-> {<<>>,
              <<"1", "2", "3", "4", "5", "6", "7", "8", "9", "0">>,
              <<"9", "8", "7", "6", "5">>,
              <<"9", "8", "7", "6", "5", "4", "3", "2", "1", "0", "0">>},
   address |-> {<<>>, <<"s", "h", "o", "r", "t">>,
                <<" ", " ", "1", "2", " ", "M", "G", " ", "R", "d", " ">>},
   city |-> {<<>>, <<"X">>, <<" ", " ">>},
   pin |-> {<<>>, <<"1", "2", "3", "4", "5">>,
            <<"a", "b", "c", "d", "e", "f">>,
            <<"4", "0", "0", "0", "0", "1", "2">>},
   payment |-> {<<>>},
   quantity |-> {<<>>, <<"0">>, <<"1", "1">>, <<"a", "b", "c">>,
                 <<"5", "a", "b", "c">>, <<"-", "1">>}]

WithoutKeys(form, keys) == [k \in DOMAIN form \ keys |-> form[k]]
WithEmpty(form, keys) ==
  [k \in DOMAIN form |-> IF k \in keys THEN <<>> ELSE form[k]]
\* a form every field of which breaks its rule
InvalidForm ==
  [name |-> <<"B">>,
   phone |-> <<"5", "8", "7", "6", "5", "4", "3", "2", "1", "0">>,
   address |-> <<"n", "e", "a", "r", "b", "y">>,
   city |-> <<" ", "Q", " ">>,
   pin |-> <<"4", "0", "0", " ", "0", "0", "1">>,
   payment |-> <<>>,
   quantity |-> <<"1", "2">>]

WithAlternatives(form, keys) ==
  [k \in DOMAIN form |-> IF k \in keys THEN InvalidForm[k] ELSE form[k]]

\* the forms submitted to processOrder: the valid ones, one field changed,
\* one key missing, and several fields wrong at once
OrderForms ==
  {ValidForm1, ValidForm2}
    \cup UNION {{[ValidForm1 EXCEPT ![f] = v] : v \in Alternatives[f]} : f \in Fields}
    \cup {WithoutKeys(ValidForm1, {f}) : f \in Fields}
    \cup {WithoutKeys(ValidForm2, Fields), WithEmpty(ValidForm2, Fields),
          WithAlternatives(ValidForm2, {"pin", "quantity"}),
          WithAlternatives(ValidForm2, {"name", "phone", "city"}),
          WithAlternatives(ValidForm2, Fields),
          WithoutKeys(WithEmpty(ValidForm2, {"address"}), {"phone", "payment"})}

\* the forms submitted on the store that may be corrupt
FaultyForms ==
  {ValidForm1,
   [ValidForm1 EXCEPT !["pin"] = <<"1", "2", "3", "4", "5">>],
   WithAlternatives(ValidForm2, {"name", "phone", "city"}),
   WithoutKeys(ValidForm2, Fields)}

\* the ids passed to selectProduct: the first and the last of the catalog
\* and one that is not in it
ProductIds == {products[1].id, products[Len(products)].id, "unknown-product"}

\* validateOrderForm on the forms submitted, computed once
ValidationOf == [formData \in OrderForms |-> validateOrderForm(formData)]

\* the days an order is submitted on: a Monday and a Saturday
SubmitDays == {1, 6}
\* the draws of Math.random() at an order: the least and the greatest
SubmitRandoms == {0, RandomScale - 1}

(***************************************************************************)
(* The state machine.  localStorage is the browser's store; call is the    *)
(* last call made, with what the environment did in it, and ret what it    *)
(* returned.  History: selAtSubmit is the selection item that was in the   *)
(* store when the order that wrote the last booking was submitted,         *)
(* lastBooking the booking the last successful processOrder returned,      *)
(* absSel the selection the calls made so far should have left.            *)
(***************************************************************************)

Init ==
  /\ localStorage = [k \in STORAGE_KEYS |-> NoItem]
  /\ call = [op |-> "load"]
  /\ ret = Null
  /\ selAtSubmit = NoItem
  /\ lastBooking = Null
  /\ absSel = Null

\* SelectionManager.selectProduct(productId); SetThrows: whether setItem may
\* throw; GetThrows: whether the read of the summary refresh that follows a
\* successful write may
SelectProduct(productId, SetThrows, GetThrows) ==
  LET product == getProductById(productId)
  IN IF Falsy(product)
       THEN /\ ret' = Bool(FALSE)
            /\ call' = [op |-> "selectProduct", productId |-> productId,
                        threw |-> FALSE]
            /\ UNCHANGED <<localStorage, selAtSubmit, lastBooking, absSel>>
       ELSE \E throws \in SetThrows, getThrows \in GetThrows :
              /\ localStorage' =
                   StorageSetItemStore(localStorage, SELECTED_PRODUCT, product, throws)
              /\ ret' = IF \/ StorageSetItemRaises(throws)
                           \/ /\ StorageSetItem(throws)
                              /\ StorageGetItemRaises(localStorage', SELECTED_PRODUCT,
                                                      getThrows)
                          THEN Raised
                          ELSE Bool(StorageSetItem(throws))
              /\ call' = [op |-> "selectProduct", productId |-> productId,
                          threw |-> throws]
              /\ absSel' = IF throws THEN absSel
                           ELSE CHOOSE p \in {products[i] : i \in 1..Len(products)} :
                                  p.id = productId
              /\ UNCHANGED <<selAtSubmit, lastBooking>>

\* SelectionManager.getSelectedProduct()
GetSelectedProduct(GetThrows) ==
  \E throws \in GetThrows :
    /\ ret' = IF StorageGetItemRaises(localStorage, SELECTED_PRODUCT, throws)
                THEN Raised
                ELSE getSelectedProduct(localStorage, throws)
    /\ call' = [op |-> "getSelectedProduct", threw |-> throws]
    /\ UNCHANGED <<localStorage, selAtSubmit, lastBooking, absSel>>

\* SelectionManager.clearSelection()
ClearSelection(RemoveThrows, GetThrows) ==
  \E throws \in RemoveThrows, getThrows \in GetThrows :
    /\ localStorage' = StorageRemoveItemStore(localStorage, SELECTED_PRODUCT, throws)
    /\ ret' = IF \/ StorageRemoveItemRaises(throws)
                 \/ /\ StorageRemoveItem(throws)
                    /\ StorageGetItemRaises(localStorage', SELECTED_PRODUCT, getThrows)
                THEN Raised
                ELSE Bool(StorageRemoveItem(throws))
    /\ call' = [op |-> "clearSelection", threw |-> throws]
    /\ absSel' = IF throws THEN absSel ELSE Null
    /\ UNCHANGED <<selAtSubmit, lastBooking>>

\* the selection is removed once its order has been saved
ProcessOrderConsumesSelection(formData, GetThrows, SetThrows) ==
  \E getThrows \in GetThrows :
    LET selectedProduct == getSelectedProduct(localStorage, getThrows)
        validation == ValidationOf[formData]
        branch == processOrderBranch(selectedProduct, validation)
        made(wrote, setThrew) ==
          [op |-> "processOrder", formData |-> formData,
           selectedItem |-> localStorage[SELECTED_PRODUCT],
           getThrew |-> getThrows, wrote |-> wrote, setThrew |-> setThrew]
    IN IF StorageGetItemRaises(localStorage, SELECTED_PRODUCT, getThrows)
         THEN /\ ret' = Raised
              /\ call' = made(FALSE, FALSE)
              /\ UNCHANGED <<localStorage, selAtSubmit, lastBooking, absSel>>
       ELSE IF branch = "noSelection"
         THEN /\ ret' = [success |-> FALSE, error |-> Str(NoSelectionError)]
              /\ call' = made(FALSE, FALSE)
              /\ UNCHANGED <<localStorage, selAtSubmit, lastBooking, absSel>>
       ELSE IF branch = "invalid"
         THEN /\ ret' = [success |-> FALSE, errors |-> validation.errors]
              /\ call' = made(FALSE, FALSE)
              /\ UNCHANGED <<localStorage, selAtSubmit, lastBooking, absSel>>
       ELSE \E now \in SubmitDays, idRandom \in SubmitRandoms,
               etaRandom \in SubmitRandoms, setThrows \in SetThrows :
              LET orderId == generateOrderId(now, idRandom)
                  eta == generateETA(now, etaRandom)
                  booking == Booking(orderId, now, validation.validatedData,
                                     selectedProduct, eta)
                  success == StorageSetItem(setThrows)
              IN /\ localStorage' =
                      StorageRemoveItemStore(
                        StorageSetItemStore(localStorage, BOOKING_DATA, booking,
                                            setThrows),
                        SELECTED_PRODUCT, ~success)
                 /\ ret' = IF StorageSetItemRaises(setThrows) THEN Raised
                            ELSE SaveResult(success, booking)
                 /\ call' = made(TRUE, setThrows)
                 /\ selAtSubmit' = IF success THEN localStorage[SELECTED_PRODUCT]
                                   ELSE selAtSubmit
                 /\ lastBooking' = IF success THEN booking ELSE lastBooking
                 /\ UNCHANGED absSel

\* OrderManager.processOrder(formData).  The time and the random draws are
\* read where the code reads them, after the validation.
ProcessOrder(formData, GetThrows, SetThrows) ==
  \E getThrows \in GetThrows :
    LET selectedProduct == getSelectedProduct(localStorage, getThrows)
        validation == ValidationOf[formData]
        branch == processOrderBranch(selectedProduct, validation)
        made(wrote, setThrew) ==
          [op |-> "processOrder", formData |-> formData,
           selectedItem |-> localStorage[SELECTED_PRODUCT],
           getThrew |-> getThrows, wrote |-> wrote, setThrew |-> setThrew]
    IN IF StorageGetItemRaises(localStorage, SELECTED_PRODUCT, getThrows)
         THEN /\ ret' = Raised
              /\ call' = made(FALSE, FALSE)
              /\ UNCHANGED <<localStorage, selAtSubmit, lastBooking, absSel>>
       ELSE IF branch = "noSelection"
         THEN /\ ret' = [success |-> FALSE, error |-> Str(NoSelectionError)]
              /\ call' = made(FALSE, FALSE)
              /\ UNCHANGED <<localStorage, selAtSubmit, lastBooking, absSel>>
       ELSE IF branch = "invalid"
         THEN /\ ret' = [success |-> FALSE, errors |-> validation.errors]
              /\ call' = made(FALSE, FALSE)
              /\ UNCHANGED <<localStorage, selAtSubmit, lastBooking, absSel>>
       ELSE \E now \in SubmitDays, idRandom \in SubmitRandoms,
               etaRandom \in SubmitRandoms, setThrows \in SetThrows :
              LET orderId == generateOrderId(now, idRandom)
                  eta == generateETA(now, etaRandom)
                  booking == Booking(orderId, now, validation.validatedData,
                                     selectedProduct, eta)
                  success == StorageSetItem(setThrows)
              IN /\ localStorage' =
                      StorageSetItemStore(localStorage, BOOKING_DATA, booking, setThrows)
                 /\ ret' = IF StorageSetItemRaises(setThrows) THEN Raised
                            ELSE SaveResult(success, booking)
                 /\ call' = made(TRUE, setThrows)
                 /\ selAtSubmit' = IF success THEN localStorage[SELECTED_PRODUCT]
                                   ELSE selAtSubmit
                 /\ lastBooking' = IF success THEN booking ELSE lastBooking
                 /\ UNCHANGED absSel

\* UIManager.renderConfirmation(): the booking the confirmation view reads
RenderConfirmation(GetThrows) ==
  \E throws \in GetThrows :
    /\ ret' = IF StorageGetItemRaises(localStorage, BOOKING_DATA, throws)
                THEN Raised
                ELSE StorageGetItem(localStorage, BOOKING_DATA, throws)
    /\ call' = [op |-> "renderConfirmation", threw |-> throws]
    /\ UNCHANGED <<localStorage, selAtSubmit, lastBooking, absSel>>

\* the text of an item is replaced behind the program's back (another
\* script of the origin, the user's developer tools) by one that is not the
\* JSON of a value
CorruptItem(key, text) ==
  /\ localStorage' = [localStorage EXCEPT ![key] = Item(text)]
  /\ call' = [op |-> "corruptItem", key |-> key]
  /\ ret' = Null
  /\ UNCHANGED <<selAtSubmit, lastBooking, absSel>>

\* the program on a store whose writes and removals may fail
Next ==
  \/ \E productId \in ProductIds : SelectProduct(productId, BOOLEAN, {FALSE})
  \/ GetSelectedProduct({FALSE})
  \/ ClearSelection(BOOLEAN, {FALSE})
  \/ \E formData \in OrderForms : ProcessOrder(formData, {FALSE}, BOOLEAN)
  \/ RenderConfirmation({FALSE})

Spec == Init /\ [][Next]_vars

\* the same on a store that may also fail to be read and whose items may
\* be corrupt
NextFaulty ==
  \/ \E productId \in ProductIds : SelectProduct(productId, BOOLEAN, BOOLEAN)
  \/ GetSelectedProduct(BOOLEAN)
  \/ ClearSelection(BOOLEAN, BOOLEAN)
  \/ \E formData \in FaultyForms : ProcessOrder(formData, BOOLEAN, BOOLEAN)
  \/ RenderConfirmation(BOOLEAN)
  \/ \E key \in {SELECTED_PRODUCT, BOOKING_DATA}, text \in {GarbageText, EmptyText} :
       CorruptItem(key, text)

SpecFaulty == Init /\ [][NextFaulty]_vars


(***************************************************************************)
(* The validators on their own: an input is drawn, then the validator is   *)
(* called on it.                                                           *)
(***************************************************************************)

MaxPhoneLen == 11
MaxPinLen == 8

\* every string of a phone digit, another digit and the space, and strings
\* with other characters and other whitespace
PhoneInputs ==
  StringsUpTo({"9", "1", " "}, MaxPhoneLen)
    \cup {ValidForm1["phone"], ValidForm2["phone"],
          <<"6", "0", "0", "0", "0", "0", "0", "0", "0", "0">>,
          <<"5", "9", "9", "9", "9", "9", "9", "9", "9", "9">>,
          <<"\t", "7", "8", "9", "\n", "0", "1", "2", " ", " ", "3", "4", "5", "6", "\t">>,
          <<"+", "9", "8", "7", "6", "5", "4", "3", "2", "1", "0">>,
          <<"9", "8", "7", "6", "5", "4", "3", "2", "1", "a">>,
          <<"9", "8", "7", "-", "6", "5", "4", "-", "3", "2", "1", "0">>,
          <<"9", "8", "7", "6", "5", "4", "3", "2", "1", "0", "1", "2">>}

PinInputs ==
  StringsUpTo({"4", " ", "\n", "a"}, MaxPinLen)
    \cup {ValidForm1["pin"], ValidForm2["pin"], InvalidForm["pin"],
          <<"4", "0", "0", "0", "1">>,
          <<"a", "b", "c", "d", "e", "f">>,
          <<"\t", "4", "0", "0", "0", "0", "1", "\n">>,
          <<"4", "0", "0", "0", "0", "1", "\n">>,
          <<"4", "0", "0", "0", "0", "0", "1">>,
          <<"4", "0", "0", ".", "0", "1">>}

\* every form whose fields are each valid, empty or missing, and the forms
\* submitted to processOrder
FormInputs ==
  {WithoutKeys(WithEmpty(form, empty), missing) :
     form \in {ValidForm1, InvalidForm}, empty \in SUBSET Fields,
     missing \in SUBSET Fields}
    \cup OrderForms

InitInput(inputs) ==
  /\ localStorage = [k \in STORAGE_KEYS |-> NoItem]
  /\ call \in {[op |-> "input", input |-> i] : i \in inputs}
  /\ ret = Null
  /\ selAtSubmit = NoItem
  /\ lastBooking = Null
  /\ absSel = Null

CallValidatePhone ==
  /\ call.op = "input"
  /\ call' = [op |-> "validatePhone", input |-> call.input]
  /\ ret' = validatePhone(call.input)
  /\ UNCHANGED <<localStorage, selAtSubmit, lastBooking, absSel>>

SpecPhone == InitInput(PhoneInputs) /\ [][CallValidatePhone]_vars

CallValidatePIN ==
  /\ call.op = "input"
  /\ call' = [op |-> "validatePIN", input |-> call.input]
  /\ ret' = validatePIN(call.input)
  /\ UNCHANGED <<localStorage, selAtSubmit, lastBooking, absSel>>

SpecPIN == InitInput(PinInputs) /\ [][CallValidatePIN]_vars

CallValidateOrderForm ==
  /\ call.op = "input"
  /\ call' = [op |-> "validateOrderForm", input |-> call.input]
  /\ ret' = validateOrderForm(call.input)
  /\ UNCHANGED <<localStorage, selAtSubmit, lastBooking, absSel>>

SpecForm == InitInput(FormInputs) /\ [][CallValidateOrderForm]_vars

(***************************************************************************)
(* The rules of the fields, stated on the characters of the input and not  *)
(* by the validators: the properties below compare the two.                *)
(***************************************************************************)

NonWhiteSpaceAt(s) == {i \in 1..Len(s) : s[i] \notin WhiteSpace}

\* s from its first to its last character that is not whitespace
Core(s) ==
  LET at == NonWhiteSpaceAt(s)
  IN IF at = {} THEN <<>>
     ELSE SubSeq(s, CHOOSE i \in at : \A j \in at : i <= j,
                    CHOOSE i \in at : \A j \in at : i >= j)

IsNotWhiteSpace(c) == c \notin WhiteSpace

\* s with every whitespace character left out
WithoutWhiteSpace(s) == SelectSeq(s, IsNotWhiteSpace)

AllDigits(s) == \A i \in 1..Len(s) : s[i] \in Digit

IsMobileNumber(s) ==
  Len(s) = 10 /\ AllDigits(s) /\ s[1] \in {"6", "7", "8", "9"}

IsSixDigits(s) == Len(s) = 6 /\ AllDigits(s)

\* the fields of a form that break their rule; a missing key is an empty
\* string
RulesViolated(form) ==
  LET v(k) == IF k \in DOMAIN form THEN form[k] ELSE <<>>
      q == parseInt(IF "quantity" \in DOMAIN form THEN form["quantity"]
                    ELSE UndefinedString)
  IN {k \in Fields :
        \/ k = "name" /\ Len(Core(v(k))) < 2
        \/ k = "phone" /\ ~IsMobileNumber(WithoutWhiteSpace(v(k)))
        \/ k = "address" /\ Len(Core(v(k))) < 10
        \/ k = "city" /\ Len(Core(v(k))) < 2
        \/ k = "pin" /\ ~IsSixDigits(Core(v(k)))
        \/ k = "payment" /\ v(k) = <<>>
        \/ k = "quantity" /\ (q.isNaN \/ q.n < 1 \/ q.n > 10)}

IsOrder == call.op = "processOrder"

\* an item that holds the JSON of a value
Readable(item) == item.present /\ item.text.kind = "json"

\* the last call was a processOrder that found a selection in the store
OrderWithSelection ==
  IsOrder /\ Readable(call.selectedItem) /\ ~call.getThrew

\* ... and was given a form every field of which keeps its rule
OrderWithSelectionAndValidForm ==
  OrderWithSelection /\ RulesViolated(call.formData) = {}

\* the result is a success whose booking has the total price x quantity and
\* is what a read of the booking key now returns, by its id
SucceededWithTotal ==
  /\ DOMAIN ret = {"success", "booking", "error"}
  /\ ret.success
  /\ ret.booking.totalAmount =
       JSONParse(call.selectedItem.text).price
         * parseInt(call.formData["quantity"]).n
  /\ StorageGetItem(localStorage, BOOKING_DATA, FALSE) # Null
  /\ StorageGetItem(localStorage, BOOKING_DATA, FALSE).id = ret.booking.id

(***************************************************************************)
(* C1                                                                      *)
(***************************************************************************)

\* C1, as stated: whenever a selection is persisted and every field of the
\* form is valid, processOrder returns success with a booking whose
\* totalAmount is the selected price times parseInt(quantity), and a read of
\* the booking key right after returns a booking of the same id, in every
\* store state.
C1_AlwaysSucceeds ==
  OrderWithSelectionAndValidForm => SucceededWithTotal

\* C1, amended: the same, provided the write of the booking key succeeds
\* (localStorage.setItem does not throw).
C1_SucceedsWhenWritten ==
  (OrderWithSelectionAndValidForm /\ ~call.setThrew) => SucceededWithTotal

\* C1: an order of ten bottles of a selected product was written
C1_Witness ==
  /\ OrderWithSelectionAndValidForm
  /\ ~call.setThrew
  /\ ret.success
  /\ parseInt(call.formData["quantity"]).n = 10
  /\ ret.booking.totalAmount = 12990

(***************************************************************************)
(* C2                                                                      *)
(***************************************************************************)

\* C2: when no selection is persisted (the key is missing, or its item
\* cannot be read or parsed), processOrder returns exactly success = false
\* with the no-selection error string, without an errors mapping, whatever
\* the form is, valid or not.
C2_NoSelectionFirst ==
  (IsOrder /\ (~Readable(call.selectedItem) \/ call.getThrew))
    => ret = [success |-> FALSE, error |-> Str(NoSelectionError)]

\* C2: an order with several invalid fields met a selection item that is
\* not JSON
C2_Witness ==
  /\ IsOrder
  /\ call.selectedItem = Item(GarbageText)
  /\ Cardinality(RulesViolated(call.formData)) >= 2
  /\ "errors" \notin DOMAIN ret

(***************************************************************************)
(* C3                                                                      *)
(***************************************************************************)

\* C3: when a selection exists and at least one field is invalid,
\* processOrder fails with an errors mapping whose keys are exactly the
\* fields that break their rule, all of them together, and with neither an
\* error string nor a booking.
C3_AllFieldErrors ==
  (OrderWithSelection /\ RulesViolated(call.formData) # {})
    => /\ DOMAIN ret = {"success", "errors"}
       /\ ~ret.success
       /\ DOMAIN ret.errors = RulesViolated(call.formData)

\* C3: an order whose form broke the rules of three fields reported the
\* three
C3_Witness ==
  /\ OrderWithSelection
  /\ RulesViolated(call.formData) = {"name", "phone", "city"}
  /\ DOMAIN ret.errors = {"name", "phone", "city"}

(***************************************************************************)
(* C4                                                                      *)
(***************************************************************************)

NoSelectionShape(r) ==
  /\ "errors" \notin DOMAIN r
  /\ "error" \in DOMAIN r
  /\ r.error = Str(NoSelectionError)

ValidationShape(r) ==
  /\ "errors" \in DOMAIN r
  /\ "error" \notin DOMAIN r

PersistenceShape(r) ==
  /\ "errors" \notin DOMAIN r
  /\ "error" \in DOMAIN r
  /\ r.error = Str(SaveFailedError)

\* C4: with a selection and a valid form, a failing write of the booking
\* key gives success = false, the save-failure error string, a null booking
\* and no errors mapping; and every failing result has the shape of exactly
\* one of the three failures, the one that happened.
C4_ThreeFailureShapes ==
  /\ (OrderWithSelectionAndValidForm /\ call.setThrew)
       => ret = [success |-> FALSE, booking |-> Null,
                 error |-> Str(SaveFailedError)]
  /\ (IsOrder /\ ~ret.success)
       => /\ NoSelectionShape(ret) <=> ~OrderWithSelection
          /\ ValidationShape(ret)
               <=> (OrderWithSelection /\ RulesViolated(call.formData) # {})
          /\ PersistenceShape(ret)
               <=> (OrderWithSelectionAndValidForm /\ call.setThrew)
          /\ Cardinality({shape \in {"selection", "validation", "persistence"} :
                \/ shape = "selection" /\ NoSelectionShape(ret)
                \/ shape = "validation" /\ ValidationShape(ret)
                \/ shape = "persistence" /\ PersistenceShape(ret)}) = 1

\* C4: the write of the booking of a valid order failed
C4_Witness ==
  /\ OrderWithSelectionAndValidForm
  /\ call.setThrew
  /\ ~ret.success
  /\ ret.booking = Null

(***************************************************************************)
(* C5                                                                      *)
(***************************************************************************)

BookingItem == localStorage[BOOKING_DATA]
SelectionItem == localStorage[SELECTED_PRODUCT]

CatalogProducts == {products[i] : i \in 1..Len(products)}

ProductFields ==
  {"id", "name", "price", "abv", "image", "category", "description"}

\* the persisted booking holds the whole product record that was the
\* persisted selection when its order was submitted
BookingEmbedsSelection ==
  BookingItem.present
    => /\ Readable(BookingItem)
       /\ Readable(selAtSubmit)
       /\ JSONParse(BookingItem.text).product = JSONParse(selAtSubmit.text)
       /\ DOMAIN JSONParse(BookingItem.text).product = ProductFields
       /\ JSONParse(BookingItem.text).product \in CatalogProducts

\* the booking key is written only by a processOrder that found a selection
BookingWrittenByOrder ==
  BookingItem' # BookingItem
    => /\ call'.op = "processOrder"
       /\ Readable(SelectionItem)
       /\ call'.selectedItem = SelectionItem

\* selecting and clearing leave the persisted booking as it is
SelectionKeepsBooking ==
  call'.op \in {"selectProduct", "clearSelection"}
    => BookingItem' = BookingItem

\* C5: in every reachable state a persisted booking embeds the complete
\* product record that was the persisted selection when it was submitted; a
\* booking is only ever written by a processOrder call that found a
\* selection; and selectProduct and clearSelection never change the
\* persisted booking, so never the product inside it.
C5_BookingSnapshot ==
  /\ []BookingEmbedsSelection
  /\ [][BookingWrittenByOrder]_vars
  /\ [][SelectionKeepsBooking]_vars

\* C5: a booking of one product is persisted while another product has been
\* selected since
C5_Witness ==
  /\ call.op = "selectProduct"
  /\ ret = Bool(TRUE)
  /\ Readable(BookingItem)
  /\ Readable(SelectionItem)
  /\ JSONParse(BookingItem.text).product # JSONParse(SelectionItem.text)

(***************************************************************************)
(* C6                                                                      *)
(***************************************************************************)

\* C6: the store holds a booking exactly when some processOrder has
\* succeeded, and then it is the booking (as JSON) that the most recent
\* successful processOrder returned: a successful order overwrites the one
\* before it, and the confirmation view reads that latest booking.
C6_LatestBooking ==
  /\ BookingItem.present <=> lastBooking # Null
  /\ BookingItem.present => BookingItem = Item(JSONStringify(lastBooking))
  /\ (IsOrder /\ ret.success)
       => /\ lastBooking = ret.booking
          /\ StorageGetItem(localStorage, BOOKING_DATA, FALSE) = ToJSON(ret.booking)
  /\ call.op = "renderConfirmation"
       => ret = IF lastBooking = Null THEN Null ELSE ToJSON(lastBooking)

\* C6: the write of an order failed and the store still holds the booking
\* of an earlier order, made with another form
C6_Witness ==
  /\ IsOrder
  /\ call.setThrew
  /\ ~ret.success
  /\ BookingItem.present
  /\ lastBooking.customer # ValidationOf[call.formData].validatedData

(***************************************************************************)
(* C7                                                                      *)
(***************************************************************************)

CatalogIds == {p.id : p \in CatalogProducts}

\* selectProduct with an id that is not in the catalog returns false and
\* leaves the store as it was
UnknownIdChangesNothing ==
  (call'.op = "selectProduct" /\ call'.productId \notin CatalogIds)
    => ret' = Bool(FALSE) /\ localStorage' = localStorage

\* C7: after any selectProduct and clearSelection calls whose store
\* operations work, getSelectedProduct returns the catalog product of the
\* most recent selectProduct with a catalog id unless a clearSelection
\* followed it, and null otherwise (absSel is that product or null, and a
\* call whose store operation throws leaves it); selectProduct with a
\* catalog id returns true on a working store; with an id that is not in the
\* catalog it returns false and leaves the persisted selection as it was.
C7_SelectionFollowsCalls ==
  /\ [](getSelectedProduct(localStorage, FALSE) = absSel)
  /\ [](call.op = "getSelectedProduct" => ret = absSel)
  /\ []((call.op = "selectProduct" /\ call.productId \in CatalogIds
           /\ ~call.threw) => ret = Bool(TRUE))
  /\ []((call.op = "clearSelection" /\ ~call.threw) => ret = Bool(TRUE))
  /\ [][UnknownIdChangesNothing]_vars

\* C7: a read after select then clear returned null
C7_Witness ==
  /\ call.op = "getSelectedProduct"
  /\ ret = Null
  /\ absSel = Null
  /\ lastBooking # Null

\* C7: a selectProduct with an unknown id failed while a product stayed
\* selected
C7_UnknownKeptSelection ==
  /\ call.op = "selectProduct"
  /\ call.productId \notin CatalogIds
  /\ ret = Bool(FALSE)
  /\ absSel = products[Len(products)]

(***************************************************************************)
(* C8                                                                      *)
(***************************************************************************)

\* the form with every missing key given the empty string
WithMissingAsEmpty(form) ==
  [k \in Fields |-> IF k \in DOMAIN form THEN form[k] ELSE <<>>]

\* C8: for every form over the seven keys, any of them missing or empty,
\* validateOrderForm returns a result whose isValid is a boolean that is
\* true exactly when its errors mapping is empty, whose errors are keyed by
\* fields, and whose isValid and errors are those of the same form with
\* each missing key given the empty string.
C8_ValidateTotal ==
  call.op = "validateOrderForm"
    => /\ DOMAIN ret = {"isValid", "errors", "validatedData"}
       /\ ret.isValid \in BOOLEAN
       /\ ret.isValid <=> DOMAIN ret.errors = {}
       /\ DOMAIN ret.errors \subseteq Fields
       /\ ret.isValid = validateOrderForm(WithMissingAsEmpty(call.input)).isValid
       /\ ret.errors = validateOrderForm(WithMissingAsEmpty(call.input)).errors

\* C8: a form with only its payment key missing was validated
C8_Witness ==
  /\ call.op = "validateOrderForm"
  /\ DOMAIN call.input = Fields \ {"payment"}
  /\ DOMAIN ret.errors = {"payment"}

(***************************************************************************)
(* C9                                                                      *)
(***************************************************************************)

\* C9: validatePhone reports valid exactly for the inputs that, with all
\* whitespace removed, are 10 digits the first of which is 6, 7, 8 or 9,
\* and returns the input with all whitespace removed, valid or not.
C9_PhoneExact ==
  call.op = "validatePhone"
    => /\ ret.isValid <=> IsMobileNumber(WithoutWhiteSpace(call.input))
       /\ ret.value = WithoutWhiteSpace(call.input)

\* C9: a number with whitespace inside and around it was found valid
C9_Witness ==
  /\ call.op = "validatePhone"
  /\ ret.isValid
  /\ Len(call.input) > 12
  /\ Len(ret.value) = 10

(***************************************************************************)
(* C10                                                                     *)
(***************************************************************************)

\* C10, as stated: validatePIN accepts exactly the strings that consist of
\* 6 digits, and rejects every string with any other character.
C10_ExactlySixDigits ==
  call.op = "validatePIN" => (ret.isValid <=> IsSixDigits(call.input))

\* C10, amended: validatePIN accepts exactly the strings that consist of 6
\* digits once the whitespace at their two ends is removed.
C10_SixDigitsTrimmed ==
  call.op = "validatePIN" => (ret.isValid <=> IsSixDigits(Core(call.input)))

\* C10: a string of six digits between whitespace was accepted
C10_Witness ==
  /\ call.op = "validatePIN"
  /\ ret.isValid
  /\ Len(call.input) = 8

(***************************************************************************)
(* The quantity rule of validateOrderForm on its own: a form that is valid *)
(* in every other field is given each quantity string.                     *)
(***************************************************************************)

MaxQuantityLen == 3

\* every short string of two digits, a letter, a space and a sign, and
\* longer quantities
QuantityInputs ==
  StringsUpTo({"1", "0", "a", " ", "-"}, MaxQuantityLen)
    \cup {<<"a", "b", "c">>, <<"5", "a", "b", "c">>, <<"3", ".", "7">>,
          <<"+", "7">>, <<"0", "0", "7">>, <<"1", "0", "0">>, <<"9">>,
          <<"1", "e", "1">>, <<" ", " ", "1", "0", " ">>}

QuantityForms == {[ValidForm1 EXCEPT !["quantity"] = q] : q \in QuantityInputs}

SpecQuantity == InitInput(QuantityForms) /\ [][CallValidateOrderForm]_vars

\* s is the numeral of an integer: digits, after at most one sign, with
\* nothing else around them but whitespace
IsIntegerNumeral(s) ==
  LET c == Core(s)
      d == IF c # <<>> /\ Head(c) \in {"+", "-"} THEN Tail(c) ELSE c
  IN d # <<>> /\ AllDigits(d)

\* the integer that an integer numeral denotes
NumeralValue(s) ==
  LET c == Core(s)
  IN IF Head(c) = "-" THEN 0 - DecimalValue(Tail(c))
     ELSE IF Head(c) = "+" THEN DecimalValue(Tail(c))
     ELSE DecimalValue(c)

InQuantityRange(s) == IsIntegerNumeral(s) /\ NumeralValue(s) \in 1..10

QuantityErrorRecorded == "quantity" \in DOMAIN ret.errors

\* C11: validateOrderForm records a quantity error if and only if the
\* quantity string is not the numeral of an integer in 1..10; in particular
\* every quantity that is not a number is rejected.
C11_QuantityErrorIffNotInRange ==
  (call.op = "validateOrderForm" /\ "quantity" \in DOMAIN call.input)
    => (QuantityErrorRecorded <=> ~InQuantityRange(call.input["quantity"]))

\* C11: a quantity that is not a number is accepted, and the form with it
C11_Witness ==
  /\ call.op = "validateOrderForm"
  /\ call.input["quantity"] = <<"5", "a", "b", "c">>
  /\ ~QuantityErrorRecorded
  /\ ret.isValid

(***************************************************************************)
(* generateETA on its own: a day and a draw of Math.random() are chosen,   *)
(* then the function is called.                                            *)
(***************************************************************************)

MaxDay == 13

\* two weeks of days, so that every day of the week is a day of a call
ETADays == 0..MaxDay

InitETA ==
  /\ localStorage = [k \in STORAGE_KEYS |-> NoItem]
  /\ call \in {[op |-> "input", today |-> t, random |-> r] :
                 t \in ETADays, r \in Randoms}
  /\ ret = Null
  /\ selAtSubmit = NoItem
  /\ lastBooking = Null
  /\ absSel = Null

CallGenerateETA ==
  /\ call.op = "input"
  /\ call' = [op |-> "generateETA", today |-> call.today, random |-> call.random]
  /\ ret' = generateETA(call.today, call.random)
  /\ UNCHANGED <<localStorage, selAtSubmit, lastBooking, absSel>>

SpecETA == InitETA /\ [][CallGenerateETA]_vars

\* day 0 is a Sunday: days 1 to 5 of a week are Monday to Friday
IsWeekday(day) == day % 7 \in 1..5

\* C12: for every draw and every day of the week, daysFromNow is in 2..5
\* (MIN_DAYS..MAX_DAYS) on a call from Monday to Friday and in 3..6 on a call
\* on Saturday or Sunday, and the delivery date, its string and the relative
\* label of the result are those of that same number of days.
C12_ETARange ==
  call.op = "generateETA"
    => LET days == ret.daysFromNow
       IN /\ IsWeekday(call.today) => days \in 2..5 /\ days \in MIN_DAYS..MAX_DAYS
          /\ ~IsWeekday(call.today)
               => days \in 3..6 /\ days \in (MIN_DAYS + 1)..(MAX_DAYS + 1)
          /\ ret.date = DateOf(call.today + days)
          /\ ret.dateString = LocaleDateString(call.today + days)
          /\ ret.relative = [days |-> days]

\* C12: a call on a Saturday with the greatest draw gives six days
C12_Witness ==
  /\ call.op = "generateETA"
  /\ call.today % 7 = 6
  /\ ret.daysFromNow = 6
  /\ ret.date = DateOf(call.today + 6)

(***************************************************************************)
(* Exceptions of the store                                                 *)
(***************************************************************************)

\* the persisted selection is missing, empty or not JSON
SelectionUnreadable ==
  \/ ~SelectionItem.present
  \/ SelectionItem.text \in {EmptyText, GarbageText}

\* C13: no call of selectProduct, getSelectedProduct, clearSelection,
\* processOrder or of the read of the booking raises to its caller, whatever
\* the store does: a write or a removal that throws gives false, a read that
\* throws and a missing or unparseable item give null, and processOrder
\* always returns a result with its success flag.
C13_NeverRaises ==
  /\ ret # Raised
  /\ call.op \in {"selectProduct", "clearSelection"}
       => /\ ret \in {Bool(TRUE), Bool(FALSE)}
          /\ call.threw => ret = Bool(FALSE)
  /\ (call.op = "getSelectedProduct" /\ (call.threw \/ SelectionUnreadable))
       => ret = Null
  /\ (call.op = "renderConfirmation"
        /\ (call.threw \/ ~Readable(BookingItem)))
       => ret = Null
  /\ call.op = "processOrder" => ret.success \in BOOLEAN

\* C13: a read of a selection that is not JSON returned null without the
\* store throwing
C13_Witness ==
  /\ call.op = "getSelectedProduct"
  /\ ~call.threw
  /\ SelectionItem = Item(GarbageText)
  /\ ret = Null

(***************************************************************************)
(* The validated data: validateOrderForm on every form, and the orders     *)
(***************************************************************************)

SpecFormOrder ==
  (Init \/ InitInput(FormInputs)) /\ [][Next \/ CallValidateOrderForm]_vars

\* validated is the form submitted with its phone replaced by the phone
\* without its whitespace (that of a missing phone is empty), every other
\* key as submitted and a missing key still missing
PhoneNormalizedOnly(submitted, validated) ==
  /\ DOMAIN validated = DOMAIN submitted \cup {"phone"}
  /\ validated["phone"] = WithoutWhiteSpace(WithMissingAsEmpty(submitted)["phone"])
  /\ \A k \in DOMAIN submitted \ {"phone"} : validated[k] = submitted[k]

\* C14: for every form, the validatedData of validateOrderForm has the phone
\* without whitespace and every other field as it was submitted, the
\* quantity being the submitted string; the customer of a booking returned
\* by processOrder is the submitted form changed in that way only.
C14_ValidatedDataPassThrough ==
  /\ call.op = "validateOrderForm"
       => PhoneNormalizedOnly(call.input, ret.validatedData)
  /\ (IsOrder /\ ret.success)
       => /\ PhoneNormalizedOnly(call.formData, ret.booking.customer)
          /\ ret.booking.customer["quantity"] = call.formData["quantity"]

\* C14: a booking was made from a form whose phone holds spaces and whose
\* quantity is "10"
C14_Witness ==
  /\ IsOrder
  /\ ret.success
  /\ call.formData["phone"] # ret.booking.customer["phone"]
  /\ ret.booking.customer["quantity"] = <<"1", "0">>

(***************************************************************************)
(* The notification chain of a selection change, statement by statement:   *)
(* call holds the stack of the functions that are running (the last frame  *)
(* is the one that runs), the number of summary refreshes started since    *)
(* the handler was entered, whether the page has the #selectedSummary      *)
(* element, and what that element shows.                                   *)
(***************************************************************************)

NotRendered == [rendered |-> FALSE]
Rendered(selectedProduct) == [rendered |-> TRUE, selected |-> selectedProduct]

SelectProductFrame(productId, pc) ==
  [fn |-> "selectProduct", productId |-> productId, pc |-> pc]
ClearSelectionFrame(pc) == [fn |-> "clearSelection", pc |-> pc]
UpdateSelectedSummaryFrame == [fn |-> "updateSelectedSummary"]

Running == call.stack # <<>>
Top == call.stack[Len(call.stack)]
Popped == SubSeq(call.stack, 1, Len(call.stack) - 1)

InitNotify ==
  /\ localStorage = [k \in STORAGE_KEYS |-> NoItem]
  /\ call \in {[op |-> "notify", stack |-> <<>>, refreshes |-> 0,
                hasSummary |-> h, summary |-> NotRendered] : h \in BOOLEAN}
  /\ ret = Null
  /\ selAtSubmit = NoItem
  /\ lastBooking = Null
  /\ absSel = Null

\* a click on a select button, or the global selectProductById
EnterSelectProduct(productId) ==
  /\ ~Running
  /\ call' = [call EXCEPT !.stack = <<SelectProductFrame(productId, "save")>>,
                          !.refreshes = 0]
  /\ UNCHANGED <<localStorage, ret, selAtSubmit, lastBooking, absSel>>

\* a click on the Change Selection button, or the Escape key
EnterClearSelection ==
  /\ ~Running
  /\ call' = [call EXCEPT !.stack = <<ClearSelectionFrame("remove")>>,
                          !.refreshes = 0]
  /\ UNCHANGED <<localStorage, ret, selAtSubmit, lastBooking, absSel>>

\* selectProduct up to its call of updateSelectedSummary, or to its return
\* of false
SelectProductSave(SetThrows) ==
  /\ Running
  /\ Top.fn = "selectProduct"
  /\ Top.pc = "save"
  /\ LET product == getProductById(Top.productId)
     IN IF Falsy(product)
          THEN /\ call' = [call EXCEPT !.stack = Popped]
               /\ ret' = Bool(FALSE)
               /\ UNCHANGED localStorage
          ELSE \E throws \in SetThrows :
                 /\ localStorage' = StorageSetItemStore(localStorage, SELECTED_PRODUCT,
                                                        product, throws)
                 /\ IF StorageSetItem(throws)
                      THEN /\ call' =
                                [call EXCEPT
                                   !.stack = Popped
                                     \o <<SelectProductFrame(Top.productId, "return"),
                                          UpdateSelectedSummaryFrame>>,
                                   !.refreshes = @ + 1]
                           /\ UNCHANGED ret
                      ELSE /\ call' = [call EXCEPT !.stack = Popped]
                           /\ ret' = Bool(FALSE)
  /\ UNCHANGED <<selAtSubmit, lastBooking, absSel>>

\* selectProduct after the refresh: showNotification, return success
SelectProductReturn ==
  /\ Running
  /\ Top.fn = "selectProduct"
  /\ Top.pc = "return"
  /\ call' = [call EXCEPT !.stack = Popped]
  /\ ret' = Bool(TRUE)
  /\ UNCHANGED <<localStorage, selAtSubmit, lastBooking, absSel>>

\* clearSelection up to its call of updateSelectedSummary, or to its return
\* of false
ClearSelectionRemove(RemoveThrows) ==
  /\ Running
  /\ Top.fn = "clearSelection"
  /\ Top.pc = "remove"
  /\ \E throws \in RemoveThrows :
       /\ localStorage' = StorageRemoveItemStore(localStorage, SELECTED_PRODUCT, throws)
       /\ IF StorageRemoveItem(throws)
            THEN /\ call' = [call EXCEPT
                               !.stack = Popped \o <<ClearSelectionFrame("return"),
                                                     UpdateSelectedSummaryFrame>>,
                               !.refreshes = @ + 1]
                 /\ UNCHANGED ret
            ELSE /\ call' = [call EXCEPT !.stack = Popped]
                 /\ ret' = Bool(FALSE)
  /\ UNCHANGED <<selAtSubmit, lastBooking, absSel>>

ClearSelectionReturn ==
  /\ Running
  /\ Top.fn = "clearSelection"
  /\ Top.pc = "return"
  /\ call' = [call EXCEPT !.stack = Popped]
  /\ ret' = Bool(TRUE)
  /\ UNCHANGED <<localStorage, selAtSubmit, lastBooking, absSel>>

\* the refresh clears a selection it cannot show by calling clearSelection
UpdateSelectedSummaryClearsUnreadable(GetThrows) ==
  /\ Running
  /\ Top.fn = "updateSelectedSummary"
  /\ \E throws \in GetThrows :
       LET selectedProduct == getSelectedProduct(localStorage, throws)
       IN IF ~call.hasSummary
            THEN call' = [call EXCEPT !.stack = Popped]
          ELSE IF Falsy(selectedProduct)
            THEN call' = [call EXCEPT
                            !.stack = call.stack \o <<ClearSelectionFrame("remove")>>,
                            !.summary = Rendered(selectedProduct)]
          ELSE call' = [call EXCEPT !.stack = Popped,
                                    !.summary = Rendered(selectedProduct)]
  /\ UNCHANGED <<localStorage, ret, selAtSubmit, lastBooking, absSel>>

\* UIManager.updateSelectedSummary(): without the element it returns at
\* once; otherwise it reads the selection and writes the element
UpdateSelectedSummary(GetThrows) ==
  /\ Running
  /\ Top.fn = "updateSelectedSummary"
  /\ \E throws \in GetThrows :
       LET selectedProduct == getSelectedProduct(localStorage, throws)
       IN IF ~call.hasSummary
            THEN call' = [call EXCEPT !.stack = Popped]
            ELSE call' = [call EXCEPT !.stack = Popped,
                                      !.summary = Rendered(selectedProduct)]
  /\ UNCHANGED <<localStorage, ret, selAtSubmit, lastBooking, absSel>>

\* a statement of the function that runs
StepNotify ==
  \/ SelectProductSave(BOOLEAN)
  \/ SelectProductReturn
  \/ ClearSelectionRemove(BOOLEAN)
  \/ ClearSelectionReturn
  \/ UpdateSelectedSummary(BOOLEAN)

NextNotify ==
  \/ \E productId \in ProductIds : EnterSelectProduct(productId)
  \/ EnterClearSelection
  \/ StepNotify

SpecNotify == InitNotify /\ [][NextNotify]_vars

\* the statements a frame has left to run, counting the refresh it may call
StepsLeft(frame) ==
  IF frame.fn = "updateSelectedSummary" THEN 1
  ELSE IF frame.pc = "return" THEN 1
  ELSE 3

RECURSIVE StepsLeftOf(_)
StepsLeftOf(stack) ==
  IF stack = <<>> THEN 0
  ELSE StepsLeft(Head(stack)) + StepsLeftOf(Tail(stack))

RefreshRuns == Running /\ Top.fn = "updateSelectedSummary"

\* a statement of the refresh leaves the store as it is and returns to the
\* caller of the refresh, entering no function
RefreshOnlyReads ==
  RefreshRuns => (localStorage' = localStorage /\ call'.stack = Popped)

\* a statement of a running handler leaves fewer statements to run
StepsDecrease ==
  Running => StepsLeftOf(call'.stack) < StepsLeftOf(call.stack)

\* C15: a selection change terminates: while selectProduct or clearSelection
\* runs there is a statement to run and each statement leaves fewer to run;
\* the refresh is started at most once per call and runs directly under the
\* function that called it; the refresh only reads the store and calls
\* neither selectProduct nor clearSelection.
C15_NotificationTerminates ==
  /\ [](Len(call.stack) <= 2 /\ call.refreshes <= 1)
  /\ [](Running => ENABLED StepNotify)
  /\ [][StepsDecrease]_vars
  /\ [][RefreshOnlyReads]_vars

\* C15: a selectProduct has returned true after one refresh that showed the
\* product it stored
C15_Witness ==
  /\ ~Running
  /\ call.refreshes = 1
  /\ ret = Bool(TRUE)
  /\ call.summary = Rendered(products[1])
  /\ SelectionItem = Item(JSONStringify(products[1]))

(***************************************************************************)
(* What processOrder writes                                                *)
(***************************************************************************)

\* a processOrder call changes no key but that of the booking; a call that
\* does not succeed changes no key at all; a call that succeeds stores the
\* booking it returns and leaves the selection
ProcessOrderFrame ==
  call'.op = "processOrder"
    => /\ \A k \in STORAGE_KEYS \ {BOOKING_DATA} : localStorage'[k] = localStorage[k]
       /\ ~ret'.success => localStorage' = localStorage
       /\ ~call'.wrote => localStorage' = localStorage
       /\ ret'.success
            => /\ call'.wrote
               /\ BookingItem' = Item(JSONStringify(ret'.booking))
               /\ SelectionItem' = SelectionItem
               /\ Readable(SelectionItem)

\* C16: processOrder writes nothing except the booking key, and only on the
\* success path: a call that fails for no selection, for field validation or
\* because the booking write fails leaves the persisted selection and the
\* persisted booking as they were, and a successful call leaves the
\* persisted selection as it was.
C16_ProcessOrderFrame == [][ProcessOrderFrame]_vars

\* C16: an order failed validation while a selection and the booking of an
\* earlier order were persisted
C16_Witness ==
  /\ IsOrder
  /\ ~ret.success
  /\ "errors" \in DOMAIN ret
  /\ Readable(SelectionItem)
  /\ Readable(BookingItem)

(***************************************************************************)
(* The order page.  call holds the page: which of #orderForm and           *)
(* #submitOrder it has and whether the button submits the form, how many   *)
(* handleOrderSubmit listeners each of them has, the initializeApplication *)
(* timers that popstate events have set, the values of the form fields,    *)
(* and the dispatch of the event of one user action: the listeners still   *)
(* to be invoked, whether preventDefault was called, and how many times    *)
(* processOrder was invoked and wrote a booking for that action.           *)
(***************************************************************************)

MaxPopStates == 2

\* the pages: a button that submits the form is a button of a form
Layouts ==
  {l \in [hasForm : BOOLEAN, hasButton : BOOLEAN, buttonSubmits : BOOLEAN] :
     l.buttonSubmits => (l.hasForm /\ l.hasButton)}

\* the values of the fields that a user submits
PageFields ==
  {ValidForm1, InvalidForm, [ValidForm1 EXCEPT !["quantity"] = <<>>]}

\* DOM.select('#...')?.value || '', and || '1' for the quantity
CollectFormData(fields) ==
  [k \in Fields |->
     IF k = "quantity" /\ fields[k] = <<>> THEN <<"1">> ELSE fields[k]]

\* the listeners that one run of initOrderPage adds
AddListeners(page) ==
  [page EXCEPT
     !.submitListeners = IF page.layout.hasForm THEN @ + 1 ELSE @,
     !.clickListeners = IF page.layout.hasButton THEN @ + 1 ELSE @]

\* the results of processOrder(formData) on a store: what it leaves in the
\* store, what it returns and whether it wrote the booking
ProcessOrderOutcomes(store, formData) ==
  LET selectedProduct == getSelectedProduct(store, FALSE)
      validation == validateOrderForm(formData)
      branch == processOrderBranch(selectedProduct, validation)
  IN IF branch = "noSelection"
       THEN {[store |-> store, wrote |-> FALSE,
              ret |-> [success |-> FALSE, error |-> Str(NoSelectionError)]]}
     ELSE IF branch = "invalid"
       THEN {[store |-> store, wrote |-> FALSE,
              ret |-> [success |-> FALSE, errors |-> validation.errors]]}
     ELSE {LET booking == Booking(generateOrderId(now, idRandom), now,
                                  validation.validatedData, selectedProduct,
                                  generateETA(now, etaRandom))
               success == StorageSetItem(setThrows)
           IN [store |-> StorageSetItemStore(store, BOOKING_DATA, booking, setThrows),
               wrote |-> success,
               ret |-> SaveResult(success, booking)] :
             now \in SubmitDays, idRandom \in SubmitRandoms,
             etaRandom \in SubmitRandoms, setThrows \in BOOLEAN}

\* the page after the script has loaded and initializeApplication has run
\* once; a product may have been selected on the menu page before
InitPage ==
  /\ localStorage \in
       {[k \in STORAGE_KEYS |-> NoItem],
        StorageSetItemStore([k \in STORAGE_KEYS |-> NoItem], SELECTED_PRODUCT,
                            products[1], FALSE)}
  /\ call \in
       {AddListeners([op |-> "orderPage", layout |-> l, submitListeners |-> 0,
                      clickListeners |-> 0, timers |-> 0, inits |-> 1,
                      fields |-> ValidForm1, phase |-> "idle", remaining |-> 0,
                      defaultPrevented |-> FALSE, acted |-> FALSE,
                      invoked |-> 0, written |-> 0, redirecting |-> FALSE,
                      left |-> FALSE]) : l \in Layouts}
  /\ ret = Null
  /\ selAtSubmit = NoItem
  /\ lastBooking = Null
  /\ absSel = Null

Idle == ~call.left /\ call.phase = "idle"

\* window 'popstate': setTimeout(initializeApplication, 100)
PopState ==
  /\ Idle
  /\ call.inits + call.timers < 1 + MaxPopStates
  /\ call' = [call EXCEPT !.timers = @ + 1]
  /\ UNCHANGED <<localStorage, ret, selAtSubmit, lastBooking, absSel>>

\* the timer of a popstate fires: initializeApplication runs initOrderPage,
\* which makes a new handleOrderSubmit and adds it to the form and the button
TimerInitializeApplication ==
  /\ Idle
  /\ call.timers > 0
  /\ call' = [AddListeners(call) EXCEPT !.timers = @ - 1, !.inits = @ + 1]
  /\ UNCHANGED <<localStorage, ret, selAtSubmit, lastBooking, absSel>>

BeginDispatch(fields, phase, listeners) ==
  call' = [call EXCEPT !.fields = fields, !.phase = phase,
                       !.remaining = listeners, !.defaultPrevented = FALSE,
                       !.acted = TRUE, !.invoked = 0, !.written = 0]

\* the user clicks #submitOrder: a click event is dispatched to the button
ClickSubmitButton(fields) ==
  /\ Idle
  /\ call.layout.hasButton
  /\ BeginDispatch(fields, "click", call.clickListeners)
  /\ UNCHANGED <<localStorage, ret, selAtSubmit, lastBooking, absSel>>

\* the user presses Enter in a field of #orderForm: the browser clicks the
\* button that submits the form, or submits a form that has none
PressEnter(fields) ==
  /\ Idle
  /\ call.layout.hasForm
  /\ IF call.layout.buttonSubmits
       THEN BeginDispatch(fields, "click", call.clickListeners)
       ELSE BeginDispatch(fields, "submit", call.submitListeners)
  /\ UNCHANGED <<localStorage, ret, selAtSubmit, lastBooking, absSel>>

\* the next listener of the event is invoked: handleOrderSubmit(event)
HandleOrderSubmit ==
  /\ ~call.left
  /\ call.phase \in {"click", "submit"}
  /\ call.remaining > 0
  /\ \E outcome \in ProcessOrderOutcomes(localStorage, CollectFormData(call.fields)) :
       /\ localStorage' = outcome.store
       /\ ret' = outcome.ret
       /\ call' = [call EXCEPT
                     !.remaining = @ - 1,
                     !.defaultPrevented = TRUE,
                     !.invoked = @ + 1,
                     !.written = IF outcome.wrote THEN @ + 1 ELSE @,
                     !.redirecting = @ \/ outcome.ret.success]
  /\ UNCHANGED <<selAtSubmit, lastBooking, absSel>>

\* every listener of the event has run: a click on a button that submits
\* the form is followed by the submit event of the form unless
\* preventDefault was called
EndDispatch ==
  /\ ~call.left
  /\ call.phase \in {"click", "submit"}
  /\ call.remaining = 0
  /\ call' = IF /\ call.phase = "click"
                /\ call.layout.buttonSubmits
                /\ ~call.defaultPrevented
               THEN [call EXCEPT !.phase = "submit",
                                 !.remaining = call.submitListeners]
               ELSE [call EXCEPT !.phase = "idle"]
  /\ UNCHANGED <<localStorage, ret, selAtSubmit, lastBooking, absSel>>

\* the timer of a successful order fires: the confirmation page replaces
\* the order page
Redirect ==
  /\ Idle
  /\ call.redirecting
  /\ call' = [call EXCEPT !.left = TRUE]
  /\ UNCHANGED <<localStorage, ret, selAtSubmit, lastBooking, absSel>>

NextPage ==
  \/ PopState
  \/ TimerInitializeApplication
  \/ \E fields \in PageFields : ClickSubmitButton(fields)
  \/ \E fields \in PageFields : PressEnter(fields)
  \/ HandleOrderSubmit
  \/ EndDispatch
  \/ Redirect

SpecPage == InitPage /\ [][NextPage]_vars

\* a user action has been handled to its end
ActionHandled == call.acted /\ call.phase = "idle"

\* C17: on the order page, one user submit action invokes processOrder
\* exactly once and writes at most one booking, whatever the page has gone
\* through before, the runs of initializeApplication that popstate events
\* cause included.
C17_OneOrderPerSubmit ==
  /\ call.invoked <= 1
  /\ call.written <= 1
  /\ ActionHandled => call.invoked = 1

\* C17: after one popstate, one click on the button has invoked
\* processOrder twice and written two bookings
C17_Witness ==
  /\ ActionHandled
  /\ call.inits = 2
  /\ call.invoked = 2
  /\ call.written = 2

====
